---- MODULE Spec2Model ----
(***************************************************************************)
(* Model of .github/workflows/scripts/argoworkflows.py: derivation of the  *)
(* workflow identity from a repository name, resolution of the deploy      *)
(* settings, and the submit + poll state machine of argoSubmit.            *)
(*                                                                         *)
(* Python strings are sequences of one-character strings, so formatting    *)
(* is concatenation and str.split is computed.  Python values that may be  *)
(* None, or whose type decides a branch, are records tagged by "ty".       *)
(***************************************************************************)
EXTENDS Integers, Sequences, FiniteSets, TLC

(* ---------------------------------------------------------------- bounds *)
MaxRepoLen == 2      \* longest repository name given to argoSubmit
MaxNameLen == 4      \* longest repository name given to parse_repo_name alone
MaxMembers == 2      \* most members of a settings object given to get_deploy_settings

(* ------------------------------------------------------------- constants *)
MAX_RETRIES == 120

ARGO_HOST ==
  <<"h","t","t","p","s",":","/","/","y","o","u","r","-","a","r","g","o","-",
    "s","e","r","v","e","r",".","c","o","m">>

(* --------------------------------------------------------- Python values *)
PyNone == [ty |-> "None"]
PyStr(s) == [ty |-> "str", s |-> s]
PyText(t) == [ty |-> "text", t |-> t]     \* a string held as one atom
PyInt(n) == [ty |-> "int", n |-> n]
PyList(l) == [ty |-> "list", l |-> l]
PyDict(d) == [ty |-> "dict", d |-> d]
EmptyDict == [k \in {} |-> PyNone]

\* dict.get(key, default)
DictGet(d, key, default) == IF key \in DOMAIN d THEN d[key] ELSE default

\* Python truthiness of the values the script tests with "not x" / "if x"
Truthy(v) ==
  CASE v.ty = "None" -> FALSE
    [] v.ty = "str"  -> v.s # <<>>
    [] v.ty = "dict" -> DOMAIN v.d # {}
    [] v.ty = "list" -> v.l # <<>>
    [] v.ty = "int"  -> v.n # 0
    [] OTHER         -> TRUE

(* --------------------------------------------------------------- strings *)
Hyphen == <<"-">>

\* all strings over alphabet A of length at most n
RECURSIVE StringsUpTo(_, _)
StringsUpTo(A, n) ==
  IF n = 0 THEN {<<>>}
  ELSE LET shorter == StringsUpTo(A, n - 1)
       IN shorter \cup {Append(s, c) : s \in shorter, c \in A}

\* index of the first "-" in s, 0 when there is none
FirstHyphen(s) ==
  IF \E i \in 1..Len(s) : s[i] = "-"
  THEN CHOOSE i \in 1..Len(s) : s[i] = "-" /\ \A j \in 1..(i - 1) : s[j] # "-"
  ELSE 0

\* str.split('-', maxsplit)
RECURSIVE Split(_, _)
Split(s, maxsplit) ==
  IF maxsplit = 0 \/ FirstHyphen(s) = 0 THEN <<s>>
  ELSE LET i == FirstHyphen(s)
       IN <<SubSeq(s, 1, i - 1)>> \o Split(SubSeq(s, i + 1, Len(s)), maxsplit - 1)

(* ------------------------------------------------------- parse_repo_name *)
\* the split without its limit, the text after a third hyphen dropped
parse_repo_name_Mutant(name) ==
  LET parts == Split(name, Len(name))
  IN IF Len(parts) >= 2
     THEN [capability  |-> parts[1],
           application |-> IF Len(parts) > 2
                           THEN parts[2] \o Hyphen \o parts[3]
                           ELSE parts[2]]
     ELSE [capability |-> name, application |-> name]

parse_repo_name(name) ==
  LET parts == Split(name, 2)
  IN IF Len(parts) >= 2
     THEN [capability  |-> parts[1],
           application |-> IF Len(parts) > 2
                           THEN parts[2] \o Hyphen \o parts[3]
                           ELSE parts[2]]
     ELSE [capability |-> name, application |-> name]

(* --------------------------------------------------- get_workflow_config *)
DeployWfSuffix == <<"-","d","e","p","l","o","y","-","w","f">>
StagingSuffix ==
  <<"-","w","o","r","k","l","o","a","d","-","s","t","a","g","i","n","g">>
WorkflowsPath == <<"/","w","o","r","k","f","l","o","w","s","/">>
Slash == <<"/">>

\* the namespace taken from the application instead of the capability
get_workflow_config_Mutant(name) ==
  LET app == parse_repo_name(name).application
      capability == parse_repo_name(name).capability
      ns == app \o DeployWfSuffix
  IN [namespace              |-> ns,
      workflow_template_name |-> capability \o StagingSuffix,
      workflow_url_base      |-> ARGO_HOST \o WorkflowsPath \o ns]

get_workflow_config(name) ==
  LET capability == parse_repo_name(name).capability
      ns == capability \o DeployWfSuffix
  IN [namespace              |-> ns,
      workflow_template_name |-> capability \o StagingSuffix,
      workflow_url_base      |-> ARGO_HOST \o WorkflowsPath \o ns]

(* ------------------------------------------- prepare_workflow_parameters *)
EnvironmentEq == <<"e","n","v","i","r","o","n","m","e","n","t","=">>
ApplicationEq == <<"a","p","p","l","i","c","a","t","i","o","n","=">>
LogLevelInfo == <<"l","o","g","_","l","e","v","e","l","=","i","n","f","o">>

\* the branch passed on as a fourth parameter
prepare_workflow_parameters_Mutant(env, app, app_branch) ==
  <<EnvironmentEq \o env, ApplicationEq \o app, LogLevelInfo,
    <<"a","p","p","_","b","r","a","n","c","h","=">> \o <<app_branch.t>> >>

prepare_workflow_parameters(env, app, app_branch) ==
  <<EnvironmentEq \o env, ApplicationEq \o app, LogLevelInfo>>

(* ----------------------------------------------- create_workflow_request *)
CreatorLabel == "workflows.argoproj.io/creator-email=automation@example.com"

create_workflow_request(params, template_name) ==
  [resource_kind         |-> "WorkflowTemplate",
   resource_name         |-> template_name,
   submit_options        |-> [parameters |-> params, labels |-> CreatorLabel],
   workflow_template_ref |-> [name |-> template_name]]

(* ------------------------------------------------------------ json.loads *)
\* A JSON text is a sequence of tokens: punctuation, string literals,
\* numbers, and bare words (which no JSON value starts with).
P(c) == [k |-> "punct", c |-> c]
S(t) == [k |-> "str", t |-> t]
N(n) == [k |-> "num", n |-> n]
W(w) == [k |-> "word", w |-> w]

IsP(tok, c) == tok.k = "punct" /\ tok.c = c

ParseFail == [ok |-> FALSE]
ParseOk(v, rest) == [ok |-> TRUE, val |-> v, rest |-> rest]

DictPut(d, key, v) ==
  [x \in DOMAIN d \cup {key} |-> IF x = key THEN v ELSE d[x]]

RECURSIVE ParseValue(_), ParseElems(_, _), ParseMembers(_, _)

\* one JSON value at the head of toks
ParseValue(toks) ==
  IF toks = <<>> THEN ParseFail
  ELSE LET t == Head(toks)
       IN CASE t.k = "str" -> ParseOk(PyText(t.t), Tail(toks))
            [] t.k = "num" -> ParseOk(PyInt(t.n), Tail(toks))
            [] IsP(t, "[") ->
                 IF Len(toks) >= 2 /\ IsP(toks[2], "]")
                 THEN ParseOk(PyList(<<>>), SubSeq(toks, 3, Len(toks)))
                 ELSE ParseElems(Tail(toks), <<>>)
            [] IsP(t, "{") ->
                 IF Len(toks) >= 2 /\ IsP(toks[2], "}")
                 THEN ParseOk(PyDict(EmptyDict), SubSeq(toks, 3, Len(toks)))
                 ELSE ParseMembers(Tail(toks), EmptyDict)
            [] OTHER -> ParseFail

\* value (, value)* ] with the elements read so far in acc
ParseElems(toks, acc) ==
  LET r == ParseValue(toks)
  IN IF ~r.ok \/ r.rest = <<>> THEN ParseFail
     ELSE IF IsP(Head(r.rest), "]")
          THEN ParseOk(PyList(Append(acc, r.val)), Tail(r.rest))
     ELSE IF IsP(Head(r.rest), ",")
          THEN ParseElems(Tail(r.rest), Append(acc, r.val))
     ELSE ParseFail

\* "key" : value (, "key" : value)* } with the members read so far in acc;
\* a repeated key keeps its last value
ParseMembers(toks, acc) ==
  IF Len(toks) < 2 \/ toks[1].k # "str" \/ ~IsP(toks[2], ":") THEN ParseFail
  ELSE LET r == ParseValue(SubSeq(toks, 3, Len(toks)))
       IN IF ~r.ok \/ r.rest = <<>> THEN ParseFail
          ELSE IF IsP(Head(r.rest), "}")
               THEN ParseOk(PyDict(DictPut(acc, toks[1].t, r.val)), Tail(r.rest))
          ELSE IF IsP(Head(r.rest), ",")
               THEN ParseMembers(Tail(r.rest), DictPut(acc, toks[1].t, r.val))
          ELSE ParseFail

JSONDecodeError == [ty |-> "raise", exc |-> "JSONDecodeError"]
AttributeError == [ty |-> "raise", exc |-> "AttributeError"]

json_loads(text) ==
  LET r == ParseValue(text)
  IN IF r.ok /\ r.rest = <<>> THEN r.val ELSE JSONDecodeError

(* --------------------------------------------------- get_deploy_settings *)
DefaultSettings == PyDict([app_branch |-> PyText("main")])

\* the fallback to the "main" entry left out
get_deploy_settings_Mutant(settings_json, branch) ==
  IF ~Truthy(settings_json) THEN DefaultSettings
  ELSE LET settings == json_loads(settings_json.s)
       IN IF settings = JSONDecodeError THEN DefaultSettings
          ELSE IF settings.ty # "dict" THEN AttributeError
          ELSE DictGet(settings.d, branch, DefaultSettings)

get_deploy_settings(settings_json, branch) ==
  IF ~Truthy(settings_json) THEN DefaultSettings
  ELSE LET settings == json_loads(settings_json.s)
       IN IF settings = JSONDecodeError THEN DefaultSettings
          ELSE IF settings.ty # "dict" THEN AttributeError  \* no .get, not caught
          ELSE DictGet(settings.d, branch,
                       DictGet(settings.d, "main", DefaultSettings))

(* ------------------------------------------------------ server responses *)
Unset == [ty |-> "unset"]          \* a local that has not been assigned yet
Raised == [ty |-> "raise"]         \* the call raised instead of returning

WfNameA == <<"w","f","-","x","7">>
WfNameB == <<"w","f","-","k","2">>
ServerNames == {WfNameA, WfNameB}
OtherNamespace == <<"a","r","g","o">>

\* what api_instance.submit_workflow can do, given the namespace it was sent:
\* raise, answer with full metadata (the namespace echoed or rewritten), or
\* answer with metadata that lacks the keys the script reads
SubmitResponses(ns) ==
  {Raised}
  \cup {[ty |-> "obj", metadata |-> [name |-> n, namespace |-> m]] :
          n \in ServerNames, m \in {ns, OtherNamespace}}
  \cup {[ty |-> "obj", metadata |-> EmptyDict]}

Phases == {"Pending", "Running", "Succeeded", "Failed", "Error"}
StatusDicts == {[phase |-> p] : p \in Phases} \cup {EmptyDict}

\* what api_instance.get_workflow can do: raise, give nothing, or give a
\* workflow object whose status may or may not carry a phase
FetchOutcomes ==
  {Raised, PyNone} \cup {[ty |-> "obj", status |-> d] : d \in StatusDicts}

(* ------------------------------------------------------- submit_workflow *)
\* the name and the namespace returned in the wrong order
submit_workflow_Swapped(resp) ==
  IF resp.ty = "raise" THEN <<PyNone, PyNone, PyNone>>
  ELSE IF {"name", "namespace"} \subseteq DOMAIN resp.metadata
       THEN <<PyStr(resp.metadata["namespace"]), PyStr(resp.metadata["name"]), resp>>
       ELSE <<PyNone, PyNone, PyNone>>

\* the except clause returning empty strings instead of None
submit_workflow_Mutant(resp) ==
  IF resp.ty = "raise" THEN <<PyStr(<<>>), PyStr(<<>>), PyNone>>
  ELSE IF {"name", "namespace"} \subseteq DOMAIN resp.metadata
       THEN <<PyStr(resp.metadata["name"]), PyStr(resp.metadata["namespace"]), resp>>
       ELSE <<PyStr(<<>>), PyStr(<<>>), PyNone>>

submit_workflow(resp) ==
  IF resp.ty = "raise" THEN <<PyNone, PyNone, PyNone>>
  ELSE IF {"name", "namespace"} \subseteq DOMAIN resp.metadata
       THEN <<PyStr(resp.metadata["name"]), PyStr(resp.metadata["namespace"]), resp>>
       ELSE <<PyNone, PyNone, PyNone>>     \* KeyError, caught by the same except

(* -------------------------------------------------- poll_workflow_status *)
\* one iteration more than the budget
LoopCond_OneMore(rc) == rc - 1 < MAX_RETRIES

\* the loop bound off by one
LoopCond_Mutant(rc) == rc <= MAX_RETRIES

LoopCond(rc) == rc < MAX_RETRIES

StatusPhase(workflow_status) == DictGet(workflow_status.status, "phase", "Unknown")

\* "Error" missing from the terminal phases
IsTerminal_Mutant(status_phase) == status_phase \in {"Succeeded", "Failed"}

IsTerminal(status_phase) == status_phase \in {"Succeeded", "Failed", "Error"}

\* line 124: the sleep after a fetch that gave nothing
EmptyFetchSleep == 5

\* the first tier one iteration too long
SleepSeconds_Mutant(rc) == IF rc <= 10 THEN 5 ELSE 10

\* line 135: the sleep after a non-terminal status
SleepSeconds(rc) == IF rc < 10 THEN 5 ELSE 10

(* ------------------------------------------------------------ argoSubmit *)
Ret(code, name, url) == [code |-> code, workflow_name |-> name, workflow_url |-> url]

\* the handler returning the success code
ExceptionResult_Mutant == [code |-> 0, workflow_name |-> <<>>, workflow_url |-> <<>>]

ExceptionResult == Ret(1, <<>>, <<>>)

SubmitFailedResult == Ret(1, <<>>, <<>>)

WorkflowUrl(url_base, name) == url_base \o Slash \o name

\* "Failed" listed with the phases that are still in progress
OutcomeCode_Mutant(status) ==
  IF Truthy(status)
  THEN LET final_phase == StatusPhase(status)
       IN IF final_phase = "Succeeded" THEN 0
          ELSE IF final_phase \in {"Running", "Pending", "Failed"} THEN 0
          ELSE 1
  ELSE 1

OutcomeCode(status) ==
  IF Truthy(status)
  THEN LET final_phase == StatusPhase(status)
       IN IF final_phase = "Succeeded" THEN 0
          ELSE IF final_phase \in {"Running", "Pending"} THEN 0
          ELSE 1
  ELSE 1

AppBranch(settings) ==
  IF Truthy(settings)
  THEN DictGet(settings.d, "app_branch", PyText("main"))
  ELSE PyText("main")

(* ----------------------------------------------------------------- state *)
VARIABLES
  repo_name, environment, deploy_settings,   \* arguments of argoSubmit
  pc,                                        \* position in argoSubmit
  namespace, workflow_template_name, workflow_url_base, application,
  submit_request, workflow_name,             \* locals of argoSubmit
  retry_count, final_status,                 \* poll loop counter and result
  last_sleep,                                \* seconds of the latest time.sleep
  result,                                    \* the triple argoSubmit returns
  api_response, sent_namespace, submit_calls,    \* the submit call as the server saw it
  last_fetched, fetch_key, fetch_calls       \* the status fetches as the server saw them

submitVars ==
  <<repo_name, environment, deploy_settings, pc, namespace,
    workflow_template_name, workflow_url_base, application, submit_request,
    workflow_name, retry_count, final_status, result, api_response,
    sent_namespace, submit_calls, last_fetched, fetch_key, fetch_calls,
    last_sleep>>

VARIABLES
  settings_json, branch,                     \* arguments of get_deploy_settings
  settings_pc, settings_result               \* its position and what it gave

settingsVars == <<settings_json, branch, settings_pc, settings_result>>

VARIABLES
  id_name,                                   \* argument of parse_repo_name
  id_pc, id_result                           \* its position and what it gave

identityVars == <<id_name, id_pc, id_result>>

VARIABLE
  slept                                      \* seconds spent in time.sleep so far

vars == <<submitVars, settingsVars, identityVars, slept>>

RepoNames == StringsUpTo({"a", "-"}, MaxRepoLen)
Environments == {<<"s","t","g">>, <<"p","r","d">>}
DeploySettingsInputs ==
  {PyNone, PyDict(EmptyDict), PyDict([app_branch |-> PyText("feature-x")])}

SubmitInit ==
  /\ repo_name \in RepoNames
  /\ environment \in Environments
  /\ deploy_settings \in DeploySettingsInputs
  /\ pc = "start"
  /\ namespace = Unset
  /\ workflow_template_name = Unset
  /\ workflow_url_base = Unset
  /\ application = Unset
  /\ submit_request = Unset
  /\ workflow_name = Unset
  /\ retry_count = 0
  /\ final_status = Unset
  /\ result = Unset
  /\ api_response = Unset
  /\ sent_namespace = Unset
  /\ submit_calls = 0
  /\ last_fetched = Unset
  /\ fetch_key = Unset
  /\ fetch_calls = 0
  /\ last_sleep = 0

\* lines 143-153: config, identity, parameters and request, all local
Prepare ==
  /\ pc = "start"
  /\ LET workflow_config == get_workflow_config(repo_name)
         app == parse_repo_name(repo_name).application
         parameters == prepare_workflow_parameters(environment, app,
                                                   AppBranch(deploy_settings))
     IN /\ namespace' = PyStr(workflow_config.namespace)
        /\ workflow_template_name' = PyStr(workflow_config.workflow_template_name)
        /\ workflow_url_base' = PyStr(workflow_config.workflow_url_base)
        /\ application' = PyStr(app)
        /\ submit_request' =
             create_workflow_request(parameters,
                                     workflow_config.workflow_template_name)
  /\ pc' = "submit"
  /\ UNCHANGED <<repo_name, environment, deploy_settings, workflow_name,
                 retry_count, final_status, result, api_response,
                 sent_namespace, submit_calls, last_fetched, fetch_key,
                 fetch_calls, last_sleep>>

\* lines 155-157 with submit_workflow (95-108): one call to the server, then
\* either the early return or entry into the poll loop (line 115)
SubmitCall ==
  /\ pc = "submit"
  /\ submit_calls' = submit_calls + 1
  /\ sent_namespace' = namespace
  /\ \E resp \in SubmitResponses(namespace.s) :
       /\ api_response' = resp
       /\ LET r == submit_workflow(resp)
          IN /\ workflow_name' = r[1]
             /\ namespace' = r[2]
             /\ IF r[1] = PyNone
                THEN /\ result' = SubmitFailedResult
                     /\ pc' = "done"
                ELSE /\ result' = result
                     /\ pc' = "poll"
  /\ retry_count' = 0
  /\ UNCHANGED <<repo_name, environment, deploy_settings,
                 workflow_template_name, workflow_url_base, application,
                 submit_request, final_status, last_fetched, fetch_key,
                 fetch_calls, last_sleep>>

\* lines 121-136: one iteration of the poll loop; an exception of the fetch
\* leaves poll_workflow_status and is caught at lines 176-178
PollStep(fetched) ==
  /\ pc = "poll"
  /\ LoopCond(retry_count)
  /\ fetch_calls' = fetch_calls + 1
  /\ fetch_key' = [namespace |-> namespace, name |-> workflow_name]
  /\ last_fetched' = fetched
  /\ IF fetched.ty = "raise"
     THEN /\ result' = ExceptionResult
          /\ pc' = "done"
          /\ UNCHANGED <<retry_count, final_status, last_sleep>>
     ELSE IF ~Truthy(fetched)
     THEN /\ last_sleep' = EmptyFetchSleep
          /\ retry_count' = retry_count + 1
          /\ UNCHANGED <<pc, final_status, result>>
     ELSE IF IsTerminal(StatusPhase(fetched))
     THEN /\ final_status' = fetched
          /\ pc' = "map"
          /\ UNCHANGED <<retry_count, result, last_sleep>>
     ELSE /\ last_sleep' = SleepSeconds(retry_count)
          /\ retry_count' = retry_count + 1
          /\ UNCHANGED <<pc, final_status, result>>
  /\ UNCHANGED <<repo_name, environment, deploy_settings, namespace,
                 workflow_template_name, workflow_url_base, application,
                 submit_request, workflow_name, api_response, sent_namespace,
                 submit_calls>>

\* poll handing back the last status it saw when the budget runs out
PollExhausted_Mutant ==
  /\ pc = "poll"
  /\ ~LoopCond(retry_count)
  /\ final_status' = last_fetched
  /\ pc' = "map"
  /\ UNCHANGED <<repo_name, environment, deploy_settings, namespace,
                 workflow_template_name, workflow_url_base, application,
                 submit_request, workflow_name, retry_count, result,
                 api_response, sent_namespace, submit_calls, last_fetched,
                 fetch_key, fetch_calls, last_sleep>>

\* lines 138-139: the loop condition fails, poll returns None
PollExhausted ==
  /\ pc = "poll"
  /\ ~LoopCond(retry_count)
  /\ final_status' = PyNone
  /\ pc' = "map"
  /\ UNCHANGED <<repo_name, environment, deploy_settings, namespace,
                 workflow_template_name, workflow_url_base, application,
                 submit_request, workflow_name, retry_count, result,
                 api_response, sent_namespace, submit_calls, last_fetched,
                 fetch_key, fetch_calls, last_sleep>>

\* lines 160-175: the outcome mapping
MapOutcome ==
  /\ pc = "map"
  /\ result' = Ret(OutcomeCode(final_status), workflow_name.s,
                   WorkflowUrl(workflow_url_base.s, workflow_name.s))
  /\ pc' = "done"
  /\ UNCHANGED <<repo_name, environment, deploy_settings, namespace,
                 workflow_template_name, workflow_url_base, application,
                 submit_request, workflow_name, retry_count, final_status,
                 api_response, sent_namespace, submit_calls, last_fetched,
                 fetch_key, fetch_calls, last_sleep>>

SubmitNext ==
  \/ Prepare
  \/ SubmitCall
  \/ \E fetched \in FetchOutcomes : PollStep(fetched)
  \/ PollExhausted
  \/ MapOutcome

(* ------------------------------------- get_deploy_settings on its inputs *)
Keys == {"dev", "main"}
Branches == {"main", "dev", "prod"}

AppBranchObject(b) == <<P("{"), S("app_branch"), P(":"), S(b), P("}")>>
EntryValues == {AppBranchObject(b) : b \in {"main", "feature-x"}} \cup {<<N(1)>>}
Members == {<<S(key), P(":")>> \o v : key \in Keys, v \in EntryValues}

\* exactly n members, joined by commas
RECURSIVE JoinedMembers(_)
JoinedMembers(n) ==
  IF n = 1 THEN Members
  ELSE {j \o <<P(",")>> \o m : j \in JoinedMembers(n - 1), m \in Members}

\* texts that are a JSON object
ObjectTexts ==
  {<<P("{"), P("}")>>}
  \cup UNION {{<<P("{")>> \o j \o <<P("}")>> : j \in JoinedMembers(n)} :
                n \in 1..MaxMembers}

\* texts that are valid JSON but not an object
NonMappingTexts ==
  {<<P("["), P("]")>>, <<P("["), N(1), P("]")>>,
   <<P("["), N(1), P(","), S("x"), P("]")>>, <<N(5)>>, <<S("main")>>}

ProperPrefixes(t) == {SubSeq(t, 1, n) : n \in 1..(Len(t) - 1)}

\* texts that are not JSON: a bare word, a text cut short, a text with a
\* closing brace too many
MalformedTexts ==
  {<<W("not-json")>>}
  \cup UNION {ProperPrefixes(t) : t \in ObjectTexts \cup NonMappingTexts}
  \cup {t \o <<P("}")>> : t \in ObjectTexts}

SettingsInputs ==
  {PyNone, PyStr(<<>>)}
  \cup {PyStr(t) : t \in ObjectTexts \cup NonMappingTexts \cup MalformedTexts}

SettingsInit ==
  /\ settings_json \in SettingsInputs
  /\ branch \in Branches
  /\ settings_pc = "start"
  /\ settings_result = Unset

SettingsIdle ==
  /\ settings_json = PyNone
  /\ branch = "main"
  /\ settings_pc = "idle"
  /\ settings_result = Unset

\* lines 65-73
ResolveSettings ==
  /\ settings_pc = "start"
  /\ settings_result' = get_deploy_settings(settings_json, branch)
  /\ settings_pc' = "done"
  /\ UNCHANGED <<settings_json, branch, submitVars, identityVars, slept>>

(* ----------------------------------------- parse_repo_name on its inputs *)
IdentityNames == StringsUpTo({"a", "b", "-"}, MaxNameLen)

IdentityInit ==
  /\ id_name \in IdentityNames
  /\ id_pc = "start"
  /\ id_result = Unset

IdentityIdle ==
  /\ id_name = <<>>
  /\ id_pc = "idle"
  /\ id_result = Unset

\* lines 45-53
DeriveIdentity ==
  /\ id_pc = "start"
  /\ id_result' = parse_repo_name(id_name)
  /\ id_pc' = "done"
  /\ UNCHANGED <<id_name, submitVars, settingsVars, slept>>

SubmitIdle ==
  /\ repo_name = <<>>
  /\ environment = <<>>
  /\ deploy_settings = PyNone
  /\ pc = "idle"
  /\ namespace = Unset
  /\ workflow_template_name = Unset
  /\ workflow_url_base = Unset
  /\ application = Unset
  /\ submit_request = Unset
  /\ workflow_name = Unset
  /\ retry_count = 0
  /\ final_status = Unset
  /\ result = Unset
  /\ api_response = Unset
  /\ sent_namespace = Unset
  /\ submit_calls = 0
  /\ last_fetched = Unset
  /\ fetch_key = Unset
  /\ fetch_calls = 0
  /\ last_sleep = 0

(* -------------------------------------------------------- specifications *)
\* argoSubmit against every behaviour of the server
Init == SubmitInit /\ SettingsIdle /\ IdentityIdle /\ slept = 0
Next == SubmitNext /\ UNCHANGED <<settingsVars, identityVars, slept>>
Spec == Init /\ [][Next]_vars

\* argoSubmit when every call to the server returns or raises: the script is
\* one sequential thread, so whenever it has a next step it takes it
LiveSpec == Init /\ [][Next]_vars /\ WF_vars(Next)

\* get_deploy_settings on every input
SettingsSpecInit == SettingsInit /\ SubmitIdle /\ IdentityIdle /\ slept = 0
SettingsSpec == SettingsSpecInit /\ [][ResolveSettings]_vars

\* parse_repo_name on every input
IdentitySpecInit == IdentityInit /\ SubmitIdle /\ SettingsIdle /\ slept = 0
IdentitySpec == IdentitySpecInit /\ [][DeriveIdentity]_vars

\* argoSubmit for one repository, with the time spent sleeping added up:
\* a step that went through a time.sleep (lines 124, 135) is a step that
\* counted a retry, and it slept last_sleep' seconds
ClockInit ==
  /\ SubmitInit
  /\ repo_name = <<"a", "-">>
  /\ environment = <<"s","t","g">>
  /\ deploy_settings = PyNone
  /\ SettingsIdle
  /\ IdentityIdle
  /\ slept = 0
ClockNext ==
  /\ SubmitNext
  /\ slept' = slept + (IF retry_count' = retry_count + 1 THEN last_sleep' ELSE 0)
  /\ UNCHANGED <<settingsVars, identityVars>>
ClockSpec == ClockInit /\ [][ClockNext]_vars

(* ---------------------------------------------------------------- claims *)
TerminalPhases == {"Succeeded", "Failed", "Error"}

\* the fetch gave a workflow object whose phase is p
FetchedPhase(f, p) ==
  /\ f.ty = "obj"
  /\ IF "phase" \in DOMAIN f.status THEN f.status["phase"] = p ELSE p = "Unknown"

\* the fetch gave nothing, or a workflow object in a non-terminal phase
NonTerminalFetch(f) ==
  \/ f = PyNone
  \/ f.ty = "obj" /\ \A p \in TerminalPhases : ~FetchedPhase(f, p)

TerminalFetch(f) == \E p \in TerminalPhases : FetchedPhase(f, p)

\* the run name the server gave for this submission
SubmittedName == api_response.metadata["name"]

SubmitSucceeded ==
  /\ api_response.ty = "obj"
  /\ {"name", "namespace"} \subseteq DOMAIN api_response.metadata

\* <host>/workflows/<capability>-deploy-wf/<name> for the repository at hand
ExpectedUrl(name) ==
  ARGO_HOST \o <<"/","w","o","r","k","f","l","o","w","s","/">>
    \o parse_repo_name(repo_name).capability
    \o <<"-","d","e","p","l","o","y","-","w","f">> \o <<"/">> \o name

\* C1: when submission succeeds and poll gives 'no result' because the retry
\* budget ran out with no terminal phase seen, argoSubmit returns exit code 0
\* together with the run name and the run URL.
C1_ExhaustedIsInProgress ==
  (pc = "done" /\ final_status = PyNone)
    => result = Ret(0, SubmittedName, ExpectedUrl(SubmittedName))

\* C2: a status source that never yields a terminal phase is fetched exactly
\* MAX_RETRIES times and poll then returns 'no result'; empty fetches and
\* non-terminal phases use up the same budget, one unit per fetch, and the
\* number of fetches never exceeds MAX_RETRIES.
C2_BudgetIsExactlyMaxRetries ==
  /\ fetch_calls <= 120
  /\ (pc = "poll" => fetch_calls = retry_count)
  /\ (final_status = PyNone => fetch_calls = 120 /\ NonTerminalFetch(last_fetched))
  /\ (final_status # Unset /\ NonTerminalFetch(last_fetched)
        => final_status = PyNone /\ fetch_calls = 120)

C2_Witness ==
  /\ pc = "done"
  /\ final_status = PyNone
  /\ fetch_calls = 120
  /\ FetchedPhase(last_fetched, "Unknown")

\* C3: when fetches 1..k-1 are non-terminal and fetch k gives a terminal
\* phase, poll returns that k-th status after exactly k fetches, k <= 120:
\* the loop is left at once and no fetch follows.
C3_TerminalReturnsAtOnce ==
  TerminalFetch(last_fetched)
    => /\ final_status = last_fetched
       /\ pc \in {"map", "done"}
       /\ fetch_calls = retry_count + 1
       /\ fetch_calls \in 1..120

C3_Witness ==
  /\ FetchedPhase(last_fetched, "Error")
  /\ final_status = last_fetched
  /\ fetch_calls = 3
  /\ retry_count = 2

\* C4: when the submit call fails, argoSubmit returns (1, "", "") at once,
\* having made exactly one submit call and no status fetch.
C4_SubmitFailureNotRetried ==
  (api_response = Raised)
    => /\ pc = "done"
       /\ result = Ret(1, <<>>, <<>>)
       /\ submit_calls = 1
       /\ fetch_calls = 0

C4_Witness == api_response = Raised /\ pc = "done" /\ submit_calls = 1

\* C5: when submission succeeds with run name N and a fetch within the budget
\* gives phase Succeeded, argoSubmit returns
\* (0, N, "<host>/workflows/<capability>-deploy-wf/N").
C5_SucceededResult ==
  FetchedPhase(last_fetched, "Succeeded")
    => /\ SubmitSucceeded
       /\ pc \in {"map", "done"}
       /\ (pc = "done"
             => result = Ret(0, SubmittedName, ExpectedUrl(SubmittedName)))

C5_Witness ==
  /\ pc = "done"
  /\ FetchedPhase(last_fetched, "Succeeded")
  /\ fetch_calls = 1
  /\ repo_name = <<"a", "-">>
  /\ result.code = 0
  /\ api_response.metadata["namespace"] = OtherNamespace

\* C6: when polling ends on Failed or Error, argoSubmit returns exit code 1
\* with the non-empty run name and run URL of the submitted run; empty
\* identifiers are returned only after a failed submit or an exception.
C6_FailedKeepsIdentifiers ==
  /\ (pc = "done" /\ (FetchedPhase(last_fetched, "Failed")
                        \/ FetchedPhase(last_fetched, "Error"))
        => /\ result.code = 1
           /\ result.workflow_name = SubmittedName
           /\ result.workflow_name # <<>>
           /\ result.workflow_url = ExpectedUrl(SubmittedName)
           /\ result.workflow_url # <<>>)
  /\ (pc = "done" /\ (result.workflow_name = <<>> \/ result.workflow_url = <<>>)
        => ~SubmitSucceeded \/ last_fetched = Raised)

C6_Witness ==
  /\ pc = "done"
  /\ FetchedPhase(last_fetched, "Failed")
  /\ result.code = 1
  /\ result.workflow_name = WfNameB

\* C7: an exception of a status fetch, at any poll iteration, does not leave
\* argoSubmit: it returns exit code 1 with empty run name and empty run URL.
C7_FetchExceptionMapped ==
  (last_fetched = Raised)
    => /\ pc = "done"
       /\ result = Ret(1, <<>>, <<>>)

C7_Witness ==
  /\ last_fetched = Raised
  /\ SubmitSucceeded
  /\ fetch_calls = 5
  /\ pc = "done"

\* C8: get_deploy_settings never raises: for every input (missing, empty, not
\* JSON, JSON that is not a mapping) and every branch it returns a settings
\* value, the default {app_branch: "main"} when the input is malformed.
C8_SettingsNeverRaise ==
  settings_pc = "done"
    => /\ settings_result.ty # "raise"
       /\ (settings_json.ty = "str"
             /\ settings_json.s \in MalformedTexts \cup NonMappingTexts
             => settings_result = PyDict([app_branch |-> PyText("main")]))

\* C9: for input that parses as a mapping, get_deploy_settings gives the entry
\* for the branch if present, else the entry for "main" if present, else the
\* default {app_branch: "main"}; empty or missing input gives the default.
C9_SettingsLookupOrder ==
  settings_pc = "done"
    => /\ (settings_json \in {PyNone, PyStr(<<>>)}
             => settings_result = PyDict([app_branch |-> PyText("main")]))
       /\ (settings_json.ty = "str" /\ settings_json.s \in ObjectTexts
             => LET d == json_loads(settings_json.s).d
                IN settings_result =
                     IF branch \in DOMAIN d THEN d[branch]
                     ELSE IF "main" \in DOMAIN d THEN d["main"]
                     ELSE PyDict([app_branch |-> PyText("main")]))

C9_Witness ==
  /\ settings_pc = "done"
  /\ branch = "dev"
  /\ settings_json = PyStr(<<P("{"), S("main"), P(":")>>
                             \o AppBranchObject("feature-x") \o <<P("}")>>)
  /\ settings_result = PyDict([app_branch |-> PyText("feature-x")])

\* C10: for every repository name with at least two hyphen-separated
\* segments, parse_repo_name never gives an empty application.
C10_ApplicationNeverEmpty ==
  (id_pc = "done" /\ \E i \in 1..Len(id_name) : id_name[i] = "-")
    => id_result.application # <<>>


\* C11: for a name with a hyphen, parse_repo_name gives the text before the
\* first hyphen as capability and all the text after it as application, so
\* capability + "-" + application is the name; for a name with no hyphen both
\* are the whole name.
C11_SplitAtFirstHyphen ==
  id_pc = "done"
    => LET hyphens == {i \in 1..Len(id_name) : id_name[i] = "-"}
       IN IF hyphens = {}
          THEN /\ id_result.capability = id_name
               /\ id_result.application = id_name
          ELSE LET first == CHOOSE i \in hyphens : \A j \in hyphens : i <= j
               IN /\ id_result.capability = SubSeq(id_name, 1, first - 1)
                  /\ id_result.application = SubSeq(id_name, first + 1, Len(id_name))
                  /\ id_result.capability \o <<"-">> \o id_result.application = id_name

C11_Witness ==
  /\ id_pc = "done"
  /\ id_name = <<"a", "-", "b", "-">>
  /\ id_result = [capability |-> <<"a">>, application |-> <<"b", "-">>]


\* C12: in the poll loop the sleep after a non-terminal status is 5 seconds
\* while the retry count is 0..9 and 10 seconds from 10 on, the sleep after an
\* empty fetch is always 5 seconds, and the retry count grows by exactly one
\* per fetch that does not give a terminal phase (and not at all on one that
\* does).
C12_TwoTierSleep ==
  [][fetch_calls' = fetch_calls + 1
       => /\ (last_fetched' = PyNone
                => last_sleep' = 5 /\ retry_count' = retry_count + 1)
          /\ (last_fetched' # PyNone /\ NonTerminalFetch(last_fetched')
                => /\ last_sleep' = (IF retry_count \in 0..9 THEN 5 ELSE 10)
                   /\ retry_count' = retry_count + 1)
          /\ (TerminalFetch(last_fetched')
                => retry_count' = retry_count /\ last_sleep' = last_sleep)]_vars

C12_Witness ==
  /\ pc = "poll"
  /\ FetchedPhase(last_fetched, "Running")
  /\ retry_count = 11
  /\ last_sleep = 10


\* C13: the retry budget amounts to 10 minutes at 5-second intervals: a poll
\* that exhausts the budget has slept 600 seconds in total, whatever the
\* non-terminal results were.
C13_BudgetIsTenMinutes ==
  (final_status = PyNone) => slept = 600


\* C14: poll only ever returns 'no result' or a status whose phase is
\* Succeeded, Failed or Error, so the outcome mapping never sees Running or
\* Pending, and argoSubmit returns exit code 0 exactly when a status fetch
\* within the budget gave phase Succeeded.
C14_ZeroOnlyOnSucceeded ==
  /\ (final_status # Unset
        => \/ final_status = PyNone
           \/ \E p \in {"Succeeded", "Failed", "Error"} : FetchedPhase(final_status, p))
  /\ (pc = "map"
        => ~FetchedPhase(final_status, "Running") /\ ~FetchedPhase(final_status, "Pending"))
  /\ (pc = "done"
        => (result.code = 0
              <=> fetch_calls \in 1..120 /\ FetchedPhase(last_fetched, "Succeeded")))

C14_Witness ==
  /\ pc = "done"
  /\ final_status = PyNone
  /\ FetchedPhase(last_fetched, "Running")
  /\ result.code = 1


\* C15: in every run exactly one submit call is issued and it precedes every
\* status fetch; every fetch is keyed by the (namespace, name) pair the server
\* returned for the submission; and a status is only ever learned from the
\* fetch of the current iteration, never carried over from an earlier one.
C15_OneSubmitThenKeyedFetches ==
  /\ submit_calls <= 1
  /\ (pc \in {"poll", "map", "done"} => submit_calls = 1)
  /\ (fetch_calls > 0
        => /\ submit_calls = 1
           /\ SubmitSucceeded
           /\ fetch_key = [namespace |-> PyStr(api_response.metadata["namespace"]),
                           name      |-> PyStr(api_response.metadata["name"])])
  /\ (pc = "poll" => fetch_calls = retry_count)
  /\ (final_status.ty = "obj" => final_status = last_fetched)

C15_Witness ==
  /\ fetch_calls = 2
  /\ submit_calls = 1
  /\ api_response.metadata["namespace"] = OtherNamespace
  /\ fetch_key = [namespace |-> PyStr(OtherNamespace), name |-> PyStr(WfNameA)]
  /\ sent_namespace # PyStr(OtherNamespace)


\* C16: the submission does not depend on the deploy settings: the namespace,
\* the template name and the ordered parameter list
\* [environment=<environment>, application=<application>, log_level=info]
\* sent to the server are fixed by the repository name and the environment
\* alone, so two invocations that differ only in deploy_settings send the same.
C16_RequestIgnoresSettings ==
  submit_calls = 1
    => LET id == parse_repo_name(repo_name)
       IN /\ sent_namespace =
               PyStr(id.capability \o <<"-","d","e","p","l","o","y","-","w","f">>)
          /\ submit_request.resource_name =
               id.capability \o <<"-","w","o","r","k","l","o","a","d","-",
                                  "s","t","a","g","i","n","g">>
          /\ submit_request.workflow_template_ref.name = submit_request.resource_name
          /\ submit_request.submit_options.parameters =
               << <<"e","n","v","i","r","o","n","m","e","n","t","=">> \o environment,
                  <<"a","p","p","l","i","c","a","t","i","o","n","=">> \o id.application,
                  <<"l","o","g","_","l","e","v","e","l","=","i","n","f","o">> >>

C16_Witness ==
  /\ submit_calls = 1
  /\ deploy_settings = PyDict([app_branch |-> PyText("feature-x")])
  /\ repo_name = <<"a", "-">>
  /\ Len(submit_request.submit_options.parameters) = 3


\* C17: when every call to the server returns or raises, argoSubmit ends
\* with a triple whose exit code is 0 or 1, after at most one submit call and
\* at most 120 status fetches; polling never goes on forever.
C17_AlwaysTerminates ==
  <>(/\ pc = "done"
     /\ result.code \in {0, 1}
     /\ submit_calls <= 1
     /\ fetch_calls <= 120)

C17_Witness ==
  /\ pc = "done"
  /\ result.code = 1
  /\ submit_calls = 1
  /\ fetch_calls = 120
  /\ last_fetched = PyNone

====
